---- MODULE Spec2Model ----
(***************************************************************************)
(* Business directory: the waitlist mutation (Convex) and the              *)
(* submit-business validation / normalisation routes (Next.js + zod).      *)
(*                                                                         *)
(* A JavaScript string is a sequence of one-character strings, so that     *)
(* trim, toLowerCase, replace and the regular expressions of the source    *)
(* act on characters.  A JavaScript value is a record [t, v]: t is the     *)
(* typeof tag ("string", "undefined", "number") and v the characters of a  *)
(* string (<<>> otherwise).                                                *)
(***************************************************************************)
EXTENDS Integers, Sequences, FiniteSets, TLC

VARIABLES
    waitlist,   \* the "waitlist" table: sequence of documents, _id = position
    callers,    \* per caller: the addEmail invocation in flight
    calls,      \* number of addEmail / submitWaitlist invocations started
    returned,   \* history: <<email argument, id>> of every call that returned an id
    phase,      \* POST /api/submit-business: "idle", "received", "saving", "responded"
    request,    \* the request being handled: the version of the route and the body
    response,   \* the response (while saving: the one prepared for after the save)
    submittedBusinesses,  \* the "submittedBusinesses" table
    issued,     \* history: the id and the stored document of every request answered 201
    businesses, \* the "businesses" table: sequence of documents, _id = position
    editors,    \* per editor: the updateBusiness invocation in flight
    edits,      \* number of updateBusiness / EditBusiness invocations started
    stepCount,  \* useFormStepper: schemas.length
    currentStep,  \* useFormStepper: the state currentStep
    accepted,   \* the steps whose schema accepts the present values of the form
    last,       \* history: the latest call of the stepper and what it invoked
    submitForm, \* SubmitBusinessForm on the submit page: the attempt in progress
    actionForm  \* SubmitBusinessForm2 / EditBusinessForm: the attempt in progress

wlVars == <<waitlist, callers, calls, returned>>

sbVars == <<phase, request, response, submittedBusinesses, issued>>

bzVars == <<businesses, editors, edits>>

stVars == <<stepCount, currentStep, accepted, last>>

fmVars == <<submitForm, actionForm>>

uiVars == <<stVars, fmVars>>

serverVars == <<wlVars, sbVars, bzVars>>

vars == <<serverVars, uiVars>>

----------------------------------------------------------------------------
(* Characters and strings *)

Digit == {"0", "1", "2", "3", "4", "5", "6", "7", "8", "9"}

LowerSeq == <<"a", "b", "c", "d", "e", "f", "g", "h", "i", "j", "k", "l", "m",
              "n", "o", "p", "q", "r", "s", "t", "u", "v", "w", "x", "y", "z">>

UpperSeq == <<"A", "B", "C", "D", "E", "F", "G", "H", "I", "J", "K", "L", "M",
              "N", "O", "P", "Q", "R", "S", "T", "U", "V", "W", "X", "Y", "Z">>

Lower == {LowerSeq[i] : i \in DOMAIN LowerSeq}

Upper == {UpperSeq[i] : i \in DOMAIN UpperSeq}

Letter == Lower \cup Upper

Alnum == Letter \cup Digit

\* JavaScript white space (String.prototype.trim and the regex class \s)
WhiteSpace == {" ", "\t", "\n"}

ToLowerChar(c) ==
    IF c \in Upper
    THEN LowerSeq[CHOOSE i \in DOMAIN UpperSeq : UpperSeq[i] = c]
    ELSE c

\* String.prototype.toLowerCase
ToLowerCase(s) == [i \in 1..Len(s) |-> ToLowerChar(s[i])]

RECURSIVE TrimStart(_)
TrimStart(s) ==
    IF s # <<>> /\ Head(s) \in WhiteSpace THEN TrimStart(Tail(s)) ELSE s

RECURSIVE TrimEnd(_)
TrimEnd(s) ==
    IF s # <<>> /\ s[Len(s)] \in WhiteSpace
    THEN TrimEnd(SubSeq(s, 1, Len(s) - 1))
    ELSE s

\* String.prototype.trim
Trim(s) == TrimEnd(TrimStart(s))

\* String.prototype.startsWith
StartsWith(s, prefix) ==
    Len(s) >= Len(prefix) /\ SubSeq(s, 1, Len(prefix)) = prefix

\* String.prototype.substring(from), from counted from 0
Substring(s, from) == SubSeq(s, from + 1, Len(s))

\* String.prototype.includes
Includes(s, part) ==
    \E i \in 1..(Len(s) - Len(part) + 1) : SubSeq(s, i, i + Len(part) - 1) = part

\* s.replace(/[^class]/g, ''): keep the characters of the class
KeepChars(s, class) == SelectSeq(s, LAMBDA c : c \in class)

\* String.prototype.split(sep) for a one-character separator
RECURSIVE Split(_, _)
Split(s, sep) ==
    IF \A i \in 1..Len(s) : s[i] # sep
    THEN <<s>>
    ELSE LET k == CHOOSE i \in 1..Len(s) :
                    s[i] = sep /\ \A j \in 1..(i - 1) : s[j] # sep
         IN <<SubSeq(s, 1, k - 1)>> \o Split(SubSeq(s, k + 1, Len(s)), sep)

\* JavaScript values
Undefined == [t |-> "undefined", v |-> <<>>]

NotAString == [t |-> "number", v |-> <<>>]

Str(s) == [t |-> "string", v |-> s]

IsString(x) == x.t = "string"

\* JavaScript truthiness of a value that is a string or undefined
Truthy(x) == x.t = "string" /\ x.v # <<>>

----------------------------------------------------------------------------
(* zod: z.string().email() *)

\* /^(?!\.)(?!.*\.\.)([A-Z0-9_'+\-\.]*)[A-Z0-9_+-]@([A-Z0-9][A-Z0-9\-]*\.)+[A-Z]{2,}$/i
IsEmail(s) ==
    LET ats == {i \in 1..Len(s) : s[i] = "@"} IN
    /\ Cardinality(ats) = 1
    /\ LET a == CHOOSE i \in ats : TRUE
           local == SubSeq(s, 1, a - 1)
           labels == Split(SubSeq(s, a + 1, Len(s)), ".")
           tld == labels[Len(labels)]
       IN /\ Len(local) >= 1
          /\ local[1] # "."
          /\ ~Includes(s, <<".", ".">>)
          /\ \A i \in 1..Len(local) : local[i] \in Alnum \cup {"_", "'", "+", "-", "."}
          /\ local[Len(local)] \in Alnum \cup {"_", "+", "-"}
          /\ Len(labels) >= 2
          /\ \A k \in 1..(Len(labels) - 1) :
                /\ labels[k] # <<>>
                /\ labels[k][1] \in Alnum
                /\ \A i \in 1..Len(labels[k]) : labels[k][i] \in Alnum \cup {"-"}
          /\ Len(tld) >= 2
          /\ \A i \in 1..Len(tld) : tld[i] \in Letter

----------------------------------------------------------------------------
(* Waitlist: convex/waitlist.ts addEmail, convex/schema.ts, waitlist/actions.ts *)

\* MODEL BOUNDS
NumCallers == 2

MaxCalls == 3

Callers == 1..NumCallers

\* sample strings
EmailUpper == <<"A", "@", "B", ".", "c", "o">>

EmailLower == <<"a", "@", "b", ".", "c", "o">>

EmailPadded == <<" ", "a", "@", "b", ".", "c", "o", " ">>

EmailOther == <<"c", "@", "d", ".", "c", "o">>

EmailBad == <<"a", "b">>

NameAnn == Str(<<"A", "n", "n">>)

NameBob == Str(<<"B", "o", "b">>)

PhoneP == Str(<<"0", "7">>)

\* addEmail args (v.string(), v.optional(v.string()), v.optional(v.string()))
AddEmailArgs ==
    [email : {EmailUpper, EmailPadded, EmailOther},
     name : {Undefined, NameAnn},
     phone : {Undefined}]
    \cup [email : {EmailLower}, name : {NameBob}, phone : {PhoneP}]

\* what a visitor can type in the waitlist page's only input
FormEmails == {EmailUpper, EmailBad}

Idle == [pc |-> "idle", via |-> "none",
         args |-> [email |-> <<>>, name |-> Undefined, phone |-> Undefined],
         snap |-> <<>>, existing |-> 0, writes |-> <<>>, retries |-> 0,
         result |-> [ok |-> FALSE, id |-> 0, error |-> "none"]]

\* const normalizedEmail = args.email.trim().toLowerCase()
NormalizeEmailTrimOnly(email) == Trim(email)

NormalizeEmail(email) == ToLowerCase(Trim(email))

\* ctx.db.query("waitlist").withIndex("by_email", q => q.eq("email", e))
ByEmail(db, e) == {i \in 1..Len(db) : db[i].email = e}

\* the waitlist table's validator: email and name are v.string(), phone optional
WaitlistTableAccepts(doc) ==
    /\ doc.name.t = "string"
    /\ doc.phone.t \in {"string", "undefined"}

\* the handler after the lookup: return existing._id, or insert a new entry
HandlerWritesPatching(existing, normalizedEmail, args) ==
    IF existing # 0
    THEN <<[op |-> "patch", id |-> existing,
            doc |-> [email |-> normalizedEmail, name |-> args.name, phone |-> args.phone]]>>
    ELSE <<[op |-> "insert", id |-> 0,
            doc |-> [email |-> normalizedEmail, name |-> args.name, phone |-> args.phone]]>>

HandlerWrites(existing, normalizedEmail, args) ==
    IF existing # 0
    THEN <<>>
    ELSE <<[op |-> "insert", id |-> 0,
            doc |-> [email |-> normalizedEmail, name |-> args.name, phone |-> args.phone]]>>

\* A Convex mutation is a serializable transaction: it reads a snapshot, and
\* at commit a read set (here the index range email = normalizedEmail) that a
\* later commit has changed makes the runtime re-run the handler.
ReadConflictNever(snap, db, e) == FALSE

ReadConflict(snap, db, e) ==
    \/ ByEmail(snap, e) # ByEmail(db, e)
    \/ \E i \in ByEmail(snap, e) : snap[i] # db[i]

ApplyWrite(db, w) ==
    IF w.op = "insert" THEN Append(db, w.doc)
    ELSE [db EXCEPT ![w.id] = w.doc]

Set(p, rec) == callers' = [callers EXCEPT ![p] = rec]

\* a client calls the public mutation api.waitlist.addEmail
CallAddEmail(p, args) ==
    /\ callers[p].pc = "idle"
    /\ calls < MaxCalls
    /\ calls' = calls + 1
    /\ Set(p, [Idle EXCEPT !.pc = "lookup", !.via = "mutation", !.args = args,
                           !.snap = waitlist])
    /\ UNCHANGED <<waitlist, returned, sbVars, bzVars, uiVars>>

\* the waitlist page's server action: WaitlistSchema.safeParse, then fetchMutation
SubmitWaitlist(p, email) ==
    /\ callers[p].pc = "idle"
    /\ calls < MaxCalls
    /\ calls' = calls + 1
    /\ IF ~IsEmail(email)
       THEN Set(p, [Idle EXCEPT !.pc = "done", !.via = "form", !.args.email = email,
                                !.result.error = "Invalid input"])
       ELSE Set(p, [Idle EXCEPT !.pc = "lookup", !.via = "form", !.args.email = email,
                                !.snap = waitlist])
    /\ UNCHANGED <<waitlist, returned, sbVars, bzVars, uiVars>>

\* const existing = await ctx.db.query(...).withIndex(...).unique()
Lookup(p) ==
    LET c == callers[p]
        found == ByEmail(c.snap, NormalizeEmail(c.args.email))
    IN /\ c.pc = "lookup"
       /\ IF Cardinality(found) > 1
          THEN Set(p, [c EXCEPT !.pc = "done", !.result.error = "unique() returned more than one result"])
          ELSE IF found = {}
               THEN Set(p, [c EXCEPT !.pc = "insert", !.existing = 0])
               ELSE Set(p, [c EXCEPT !.pc = "commit",
                                     !.existing = CHOOSE i \in found : TRUE,
                                     !.writes = HandlerWrites(CHOOSE i \in found : TRUE,
                                                    NormalizeEmail(c.args.email), c.args)])
       /\ UNCHANGED <<waitlist, calls, returned, sbVars, bzVars, uiVars>>

\* const id = await ctx.db.insert("waitlist", {...}): validated against the schema
Insert(p) ==
    LET c == callers[p]
        ws == HandlerWrites(0, NormalizeEmail(c.args.email), c.args)
    IN /\ c.pc = "insert"
       /\ IF \E k \in 1..Len(ws) : ~WaitlistTableAccepts(ws[k].doc)
          THEN Set(p, [c EXCEPT !.pc = "done", !.result.error = "schema validation failed"])
          ELSE Set(p, [c EXCEPT !.pc = "commit", !.writes = ws])
       /\ UNCHANGED <<waitlist, calls, returned, sbVars, bzVars, uiVars>>

\* the transaction commits, or is re-run on a conflicting concurrent commit
Commit(p) ==
    LET c == callers[p]
        e == NormalizeEmail(c.args.email)
    IN /\ c.pc = "commit"
       /\ IF ReadConflict(c.snap, waitlist, e)
          THEN /\ Set(p, [c EXCEPT !.pc = "lookup", !.snap = waitlist, !.existing = 0,
                                   !.writes = <<>>, !.retries = c.retries + 1])
               /\ UNCHANGED waitlist
          ELSE /\ waitlist' = IF c.writes = <<>> THEN waitlist
                              ELSE ApplyWrite(waitlist, c.writes[1])
               /\ Set(p, [c EXCEPT !.pc = "done",
                                   !.result = [ok |-> TRUE,
                                               id |-> IF c.existing # 0 THEN c.existing
                                                      ELSE Len(waitlist) + 1,
                                               error |-> "none"]])
       /\ UNCHANGED <<calls, returned, sbVars, bzVars, uiVars>>

\* the caller receives the result
Return(p) ==
    /\ callers[p].pc = "done"
    /\ returned' = IF callers[p].result.ok
                   THEN returned \cup {<<callers[p].args.email, callers[p].result.id>>}
                   ELSE returned
    /\ Set(p, Idle)
    /\ UNCHANGED <<waitlist, calls, sbVars, bzVars, uiVars>>

WaitlistInit ==
    /\ waitlist = <<>>
    /\ callers = [p \in Callers |-> Idle]
    /\ calls = 0
    /\ returned = {}

WaitlistNext ==
    \E p \in Callers :
        \/ \E args \in AddEmailArgs : CallAddEmail(p, args)
        \/ \E email \in FormEmails : SubmitWaitlist(p, email)
        \/ Lookup(p)
        \/ Insert(p)
        \/ Commit(p)
        \/ Return(p)

----------------------------------------------------------------------------
(* Regular expressions: a sequence of items, each a character class with a *)
(* quantifier "1" (exactly one), "?" (optional) or "*" (any number)        *)

One(class) == [c |-> class, q |-> "1"]

Opt(class) == [c |-> class, q |-> "?"]

Star(class) == [c |-> class, q |-> "*"]

\* ^re$ against the whole string
RECURSIVE Matches(_, _)
Matches(re, s) ==
    IF re = <<>> THEN s = <<>>
    ELSE LET it == Head(re)
             hit == s # <<>> /\ Head(s) \in it.c
         IN CASE it.q = "1" -> hit /\ Matches(Tail(re), Tail(s))
              [] it.q = "?" -> (hit /\ Matches(Tail(re), Tail(s))) \/ Matches(Tail(re), s)
              [] it.q = "*" -> (hit /\ Matches(re, Tail(s))) \/ Matches(Tail(re), s)

D == One(Digit)

\* /^([01]?[0-9]|2[0-3]):[0-5][0-9]$/
TimeRegex(s) ==
    \/ Matches(<<Opt({"0", "1"}), D, One({":"}),
                 One({"0", "1", "2", "3", "4", "5"}), D>>, s)
    \/ Matches(<<One({"2"}), One({"0", "1", "2", "3"}), One({":"}),
                 One({"0", "1", "2", "3", "4", "5"}), D>>, s)

\* /^(\+44\s?7\d{3}|\(?07\d{3}\)?\s?\d{3}\s?\d{3}|7\d{3}\s?\d{3}\s?\d{3})$/
PhoneRegex(s) ==
    \/ Matches(<<One({"+"}), One({"4"}), One({"4"}), Opt(WhiteSpace), One({"7"}), D, D, D>>, s)
    \/ Matches(<<Opt({"("}), One({"0"}), One({"7"}), D, D, D, Opt({")"}), Opt(WhiteSpace),
                 D, D, D, Opt(WhiteSpace), D, D, D>>, s)
    \/ Matches(<<One({"7"}), D, D, D, Opt(WhiteSpace), D, D, D, Opt(WhiteSpace), D, D, D>>, s)

\* /^[a-zA-Z0-9][a-zA-Z0-9.-]*[a-zA-Z0-9]\.?$/
WebsiteRegex(s) ==
    Matches(<<One(Alnum), Star(Alnum \cup {".", "-"}), One(Alnum), Opt({"."})>>, s)

\* one label [a-z0-9]([a-z0-9-]*[a-z0-9])? of domainRegex (flag i)
DomainLabel(l) ==
    /\ l # <<>>
    /\ l[1] \in Alnum /\ l[Len(l)] \in Alnum
    /\ \A i \in 1..Len(l) : l[i] \in Alnum \cup {"-"}

\* /^[a-z0-9]([a-z0-9-]*[a-z0-9])?(\.[a-z0-9]([a-z0-9-]*[a-z0-9])?)*\.[a-z]{2,}$/i :
\* the labels hold no dot, so the match is decided on the dot-separated parts
DomainRegex(s) ==
    LET parts == Split(s, ".")
        tld == parts[Len(parts)]
    IN /\ Len(parts) >= 2
       /\ \A k \in 1..(Len(parts) - 1) : DomainLabel(parts[k])
       /\ Len(tld) >= 2
       /\ \A i \in 1..Len(tld) : tld[i] \in Letter

\* s.replace(/^www\./i, '')
StripWww(s) ==
    IF Len(s) >= 4 /\ ToLowerCase(SubSeq(s, 1, 4)) = <<"w", "w", "w", ".">>
    THEN Substring(s, 4)
    ELSE s

\* s.replace(/^[a-z]+:\/\//i, '')
StripScheme(s) ==
    LET ends == {k \in 1..(Len(s) - 3) :
                    /\ \A i \in 1..k : s[i] \in Letter
                    /\ SubSeq(s, k + 1, k + 3) = <<":", "/", "/">>}
    IN IF ends = {} THEN s
       ELSE Substring(s, (CHOOSE k \in ends : TRUE) + 3)

----------------------------------------------------------------------------
(* zod schemas of types/submitBusiness.ts *)

Issue(field, message) == [path |-> field, message |-> message]

MinName == 2

MaxName == 100

MinDescription == 10

MaxDescription == 500

MinPhone == 10

MinWebsite == 3

MaxWebsite == 100

\* zod's message for a missing or non-string value (invalid_type aborts the field)
InvalidType(x) ==
    IF x.t = "undefined" THEN "Required" ELSE "Expected string, received number"

\* z.string().max(n, ...) measures the string as received
TooLong(s, n) == Len(s) > n

\* name: z.string().min(1).min(2).max(100).refine(trimmed.length >= 2)
NameIssues(x, whitespaceMessage) ==
    IF ~IsString(x) THEN <<Issue("name", InvalidType(x))>>
    ELSE (IF Len(x.v) < 1 THEN <<Issue("name", "Business name is required")>> ELSE <<>>)
      \o (IF Len(x.v) < MinName
          THEN <<Issue("name", "Business name must be at least 2 characters")>> ELSE <<>>)
      \o (IF TooLong(x.v, MaxName)
          THEN <<Issue("name", "Business name cannot exceed 100 characters")>> ELSE <<>>)
      \o (IF ~(Len(Trim(x.v)) >= MinName)
          THEN <<Issue("name", whitespaceMessage)>> ELSE <<>>)

\* description: z.string().min(1).min(10).max(500).refine(trimmed.length >= 10)
DescriptionIssues(x, whitespaceMessage) ==
    IF ~IsString(x) THEN <<Issue("description", InvalidType(x))>>
    ELSE (IF Len(x.v) < 1 THEN <<Issue("description", "Description is required")>> ELSE <<>>)
      \o (IF Len(x.v) < MinDescription
          THEN <<Issue("description", "Description must be at least 10 characters")>> ELSE <<>>)
      \o (IF TooLong(x.v, MaxDescription)
          THEN <<Issue("description", "Description cannot exceed 500 characters")>> ELSE <<>>)
      \o (IF ~(Len(Trim(x.v)) >= MinDescription)
          THEN <<Issue("description", whitespaceMessage)>> ELSE <<>>)

\* email: z.string().min(1, 'Email is required').email(...)
EmailIssues(x) ==
    IF ~IsString(x) THEN <<Issue("email", InvalidType(x))>>
    ELSE (IF Len(x.v) < 1 THEN <<Issue("email", "Email is required")>> ELSE <<>>)
      \o (IF ~IsEmail(x.v)
          THEN <<Issue("email", "Please enter a valid email address")>> ELSE <<>>)

\* z.string().regex(time, message).optional().or(z.literal(''))
TimeIssues(field, x, message) ==
    IF x.t = "undefined" THEN <<>>
    ELSE IF ~IsString(x) THEN <<Issue(field, "Invalid input")>>
    ELSE IF x.v = <<>> \/ TimeRegex(x.v) THEN <<>>
    ELSE <<Issue(field, message)>>

\* phone: z.string().min(10).regex(phone).optional().or(z.literal(''))
PhoneIssues(x) ==
    IF x.t = "undefined" THEN <<>>
    ELSE IF ~IsString(x) THEN <<Issue("phone", "Invalid input")>>
    ELSE IF x.v = <<>> THEN <<>>
    ELSE (IF Len(x.v) < MinPhone
          THEN <<Issue("phone", "Phone number must be at least 10 digits")>> ELSE <<>>)
      \o (IF ~PhoneRegex(x.v)
          THEN <<Issue("phone", "Please enter a valid UK phone number (e.g., +44 7123 456789, 07123 456789, or 07123456789)")>>
          ELSE <<>>)

\* website: z.string().min(3).max(100).regex(domain).optional().or(z.literal(''))
WebsiteIssues(x) ==
    IF x.t = "undefined" THEN <<>>
    ELSE IF ~IsString(x) THEN <<Issue("website", "Invalid input")>>
    ELSE IF x.v = <<>> THEN <<>>
    ELSE (IF Len(x.v) < MinWebsite
          THEN <<Issue("website", "Website must be at least 3 characters")>> ELSE <<>>)
      \o (IF Len(x.v) > MaxWebsite
          THEN <<Issue("website", "Website cannot exceed 100 characters")>> ELSE <<>>)
      \o (IF ~WebsiteRegex(x.v)
          THEN <<Issue("website", "Please enter a valid domain name (e.g., example.com, www.example.co.uk)")>>
          ELSE <<>>)

\* val.f ? val.f.trim() : ''
TrimOrEmpty(x) == IF Truthy(x) THEN Str(Trim(x.v)) ELSE Str(<<>>)

\* the seven-field schema (name ... website): issues in the order of the shape
SchemaFullIssues(b) ==
    NameIssues(b.name, "Business name cannot be only whitespace")
    \o DescriptionIssues(b.description, "Description cannot be only whitespace")
    \o EmailIssues(b.email)
    \o TimeIssues("openingTime", b.openingTime, "Please enter a valid time (HH:MM format, 24-hour)")
    \o TimeIssues("closingTime", b.closingTime, "Please enter a valid time (HH:MM format, 24-hour)")
    \o PhoneIssues(b.phone)
    \o WebsiteIssues(b.website)

\* its .transform: trims, and strips a leading www. from the website
SchemaFullTransform(b) ==
    [name |-> TrimOrEmpty(b.name),
     description |-> TrimOrEmpty(b.description),
     email |-> TrimOrEmpty(b.email),
     openingTime |-> b.openingTime,
     closingTime |-> b.closingTime,
     phone |-> TrimOrEmpty(b.phone),
     website |-> IF Truthy(b.website) THEN Str(StripWww(Trim(b.website.v))) ELSE Str(<<>>)]

\* typeof val.f === 'string' ? val.f.trim() : ''
TrimIfString(x) == IF IsString(x) THEN Str(Trim(x.v)) ELSE Str(<<>>)

\* the five-field baseSchema (name, description, email, openingTime, closingTime)
SchemaBaseIssues(b) ==
    NameIssues(b.name, "Business name cannot consist only of whitespace")
    \o DescriptionIssues(b.description, "Description cannot consist only of whitespace")
    \o EmailIssues(b.email)
    \o TimeIssues("openingTime", b.openingTime, "Please enter opening time in HH:MM format (24-hour)")
    \o TimeIssues("closingTime", b.closingTime, "Please enter closing time in HH:MM format (24-hour)")

\* its .transform: unknown keys (phone, website) were stripped by z.object
SchemaBaseTransform(b) ==
    [name |-> TrimIfString(b.name),
     description |-> TrimIfString(b.description),
     email |-> TrimIfString(b.email),
     openingTime |-> TrimIfString(b.openingTime),
     closingTime |-> TrimIfString(b.closingTime),
     phone |-> Undefined,
     website |-> Undefined]

----------------------------------------------------------------------------
(* app/api/submit-business/route.ts: helpers shared by the versions of POST *)

Fields == {"name", "description", "email", "phone", "website", "openingTime", "closingTime"}

\* a Record<string, string>: a function from keys to messages; {} is <<>>
Put(map, key, message) == (key :> message) @@ map

Keys(map) == DOMAIN map

DigitSeq == <<"0", "1", "2", "3", "4", "5", "6", "7", "8", "9">>

DigitVal(c) == (CHOOSE i \in DOMAIN DigitSeq : DigitSeq[i] = c) - 1

NaN == -1

\* new Date(`2000-01-01T${t}:00`) as minutes of the day, for t matching the time
\* pattern: the date-time format needs a two-digit hour, V8 yields Invalid Date
\* (NaN) for "9:00"
DateOf(t) ==
    IF Len(t) = 5
    THEN (DigitVal(t[1]) * 10 + DigitVal(t[2])) * 60 + DigitVal(t[4]) * 10 + DigitVal(t[5])
    ELSE NaN

\* a >= b on Dates: false when either is NaN
DateGeq(a, b) == a # NaN /\ b # NaN /\ a >= b

DateGt(a, b) == a # NaN /\ b # NaN /\ a > b

Http == <<"h", "t", "t", "p", ":", "/", "/">>

Https == <<"h", "t", "t", "p", "s", ":", "/", "/">>

Www == <<"w", "w", "w", ".">>

Plus44 == <<"+", "4", "4">>

NoData == [f \in Fields |-> Undefined]

Response(status, success, errors, data, recordStatus, timeWarning, id) ==
    [status |-> status, success |-> success, errors |-> errors, data |-> data,
     recordStatus |-> recordStatus, timeWarning |-> timeWarning, id |-> id]

NoId == [prefix |-> "", ms |-> 0, random |-> 0]

\* SubmitBusinessFormSchema.safeParse(body): the issues, in order
ZodIssues(body, fieldIssues) ==
    IF body.kind = "object" THEN fieldIssues
    ELSE <<Issue("", "Expected object, received " \o body.kind)>>

----------------------------------------------------------------------------
(* route.ts, first version (lines 6-137), on the seven-field schema *)

\* formatUKPhone (route.ts:25-49)
FormatUKPhone1(phone) ==
    IF ~Truthy(phone) \/ Trim(phone.v) = <<>> THEN <<>>
    ELSE LET cleaned == KeepChars(phone.v, Digit \cup {"+"}) IN
         IF StartsWith(cleaned, <<"0", "7">>) THEN Plus44 \o Substring(cleaned, 1)
         ELSE IF StartsWith(cleaned, <<"4", "4">>) /\ Len(cleaned) > 10 THEN <<"+">> \o cleaned
         ELSE IF Len(cleaned) = 10 /\ StartsWith(cleaned, <<"7">>)
              THEN <<"+", "4", "4", "7">> \o Substring(cleaned, 1)
         ELSE IF Len(cleaned) = 10 /\ ~StartsWith(cleaned, <<"0">>) THEN Plus44 \o cleaned
         ELSE cleaned

EndsWith(s, suffix) ==
    Len(s) >= Len(suffix) /\ SubSeq(s, Len(s) - Len(suffix) + 1, Len(s)) = suffix

\* url.match(/^[^.]+\.(suffix)$/) for one suffix of the alternation
SimpleDomainWith(s, suffix, labelChars) ==
    LET n == Len(s) - Len(suffix) - 1 IN
    /\ n >= 1
    /\ EndsWith(s, <<".">> \o suffix)
    /\ \A i \in 1..n : s[i] \in labelChars

Suffixes1 == {<<"c", "o", "m">>, <<"c", "o", ".", "u", "k">>, <<"o", "r", "g">>, <<"n", "e", "t">>}

AnyButDot == Alnum \cup WhiteSpace \cup {"-", "_", ":", "/", "@", "+", "(", ")", "'"}

\* formatWebsite (route.ts:52-71)
FormatWebsite1(website) ==
    IF ~Truthy(website) \/ Trim(website.v) = <<>> THEN <<>>
    ELSE LET domain == Trim(ToLowerCase(website.v)) IN
         IF StartsWith(domain, Http) \/ StartsWith(domain, Https) THEN domain
         ELSE IF ~StartsWith(domain, Www)
                 /\ ~\E suffix \in Suffixes1 : SimpleDomainWith(domain, suffix, AnyButDot)
              THEN Https \o Www \o domain
              ELSE Https \o domain

\* the reduce over error.errors: acc[path.join('.')] = err.message
RECURSIVE FieldErrors1(_)
FieldErrors1(issues) ==
    IF issues = <<>> THEN <<>>
    ELSE Put(FieldErrors1(SubSeq(issues, 1, Len(issues) - 1)),
             issues[Len(issues)].path, issues[Len(issues)].message)

Route1Response(body, ms) ==
    IF body.kind = "unparseable"
    THEN Response(500, FALSE, <<>>, NoData, "none", FALSE, NoId)
    ELSE LET issues == ZodIssues(body, SchemaFullIssues(body.f)) IN
         IF issues # <<>>
         THEN Response(400, FALSE, FieldErrors1(issues), NoData, "none", FALSE, NoId)
         ELSE LET validatedData == SchemaFullTransform(body.f)
                  timeWarning ==
                      /\ Truthy(validatedData.openingTime) /\ Truthy(validatedData.closingTime)
                      /\ DateGeq(DateOf(validatedData.openingTime.v),
                                 DateOf(validatedData.closingTime.v))
                  formattedData ==
                      [validatedData EXCEPT !.phone = Str(FormatUKPhone1(validatedData.phone)),
                                            !.website = Str(FormatWebsite1(validatedData.website))]
              IN Response(201, TRUE, <<>>, formattedData, "pending", timeWarning,
                          [prefix |-> "business_", ms |-> ms, random |-> 0])

----------------------------------------------------------------------------
(* route.ts, second version (lines 165-356), on the five-field baseSchema, *)
(* saving to Convex (submittedBusinesses.ts)                               *)

DisplayName2(field) ==
    CASE field = "name" -> "Business Name"
      [] field = "description" -> "Business Description"
      [] field = "email" -> "Email Address"
      [] field = "openingTime" -> "Opening Time"
      [] field = "closingTime" -> "Closing Time"
      [] field = "" -> "General"
      [] OTHER -> field

\* errors[fieldName] = issue.message, with the field's technical name as the key
ErrorKeyTechnical(field) == IF field = "" THEN "General" ELSE field

\* the key under which an issue is reported (route.ts:204-218)
ErrorKey2(field) == DisplayName2(field)

\* result.error.issues.forEach(issue => errors[fieldName] = issue.message)
RECURSIVE Errors2(_)
Errors2(issues) ==
    IF issues = <<>> THEN <<>>
    ELSE Put(Errors2(SubSeq(issues, 1, Len(issues) - 1)),
             ErrorKey2(issues[Len(issues)].path), issues[Len(issues)].message)

\* x ?? ''
OrEmpty(x) == IF x.t = "undefined" THEN Str(<<>>) ELSE x

\* businessInput without the opening hours
BusinessInputWithoutTimes(data) ==
    [name |-> data.name,
     description |-> data.description,
     email |-> data.email,
     openingTime |-> Str(<<>>),
     closingTime |-> Str(<<>>),
     phone |-> OrEmpty(data.phone),
     website |-> Undefined]

\* businessInput (route.ts:269-276): what is sent to addSubmittedBusiness
BusinessInput2(data) ==
    [name |-> data.name,
     description |-> data.description,
     email |-> data.email,
     openingTime |-> OrEmpty(data.openingTime),
     closingTime |-> OrEmpty(data.closingTime),
     phone |-> OrEmpty(data.phone),
     website |-> Undefined]

\* the response before the save, or the 201 that follows a successful save
Route2Response(body, ms) ==
    IF body.kind = "unparseable"
    THEN Response(400, FALSE, Put(<<>>, "Request", "Could not parse request data"),
                  NoData, "none", FALSE, NoId)
    ELSE IF body.kind # "object"
    THEN Response(400, FALSE, Put(<<>>, "Body", "Expected JSON object"),
                  NoData, "none", FALSE, NoId)
    ELSE LET issues == SchemaBaseIssues(body.f) IN
         IF issues # <<>>
         THEN Response(400, FALSE, Errors2(issues), NoData, "none", FALSE, NoId)
         ELSE LET data == SchemaBaseTransform(body.f)
                  openTime == Trim(data.openingTime.v)
                  closeTime == Trim(data.closingTime.v)
                  timeWarning ==
                      /\ openTime # <<>> /\ closeTime # <<>>
                      /\ TimeRegex(openTime) /\ TimeRegex(closeTime)
                      /\ DateGt(DateOf(openTime), DateOf(closeTime))
              IN Response(201, TRUE, <<>>, data, "pending_review", timeWarning,
                          [prefix |-> "business_", ms |-> ms, random |-> 0])

\* the catch block taking the error for a SyntaxError (route.ts:335-344)
ServerErrorAsSyntaxError ==
    Response(400, FALSE, Put(<<>>, "Request", "Could not parse data"),
             NoData, "none", FALSE, NoId)

\* the catch block for an error that is neither a ZodError nor a SyntaxError
ServerError2 == Response(500, FALSE, <<>>, NoData, "none", FALSE, NoId)

----------------------------------------------------------------------------
(* The most elaborate version of POST (schema stage, formatting, final     *)
(* field validation), on the seven-field schema                            *)

\* formatUKPhone
FormatUKPhone9(phoneInput) ==
    IF ~Truthy(phoneInput) \/ Trim(phoneInput.v) = <<>> THEN <<>>
    ELSE LET phone == Trim(phoneInput.v)
             cleaned == KeepChars(phone, Digit \cup WhiteSpace \cup {"+", "(", ")", "-"})
             digitsOnly == KeepChars(cleaned, Digit)
         IN IF StartsWith(phone, Plus44) /\ Len(phone) >= 12 THEN phone
            ELSE IF StartsWith(phone, <<"4", "4">>) /\ Len(phone) >= 11 THEN <<"+">> \o phone
            ELSE IF Len(cleaned) < 10 THEN phone
            ELSE IF StartsWith(digitsOnly, <<"0", "7">>) /\ Len(digitsOnly) = 11
                 THEN Plus44 \o Substring(digitsOnly, 1)
            ELSE IF Len(digitsOnly) = 10 /\ StartsWith(digitsOnly, <<"7">>)
                 THEN <<"+", "4", "4", "7">> \o Substring(digitsOnly, 1)
            ELSE IF Len(digitsOnly) = 11 /\ StartsWith(digitsOnly, <<"0">>)
                 THEN Plus44 \o Substring(digitsOnly, 1)
            ELSE IF StartsWith(digitsOnly, <<"4", "4">>) /\ Len(digitsOnly) >= 11
                 THEN <<"+">> \o digitsOnly
            ELSE IF Len(digitsOnly) = 10 /\ ~StartsWith(digitsOnly, <<"0">>)
                 THEN Plus44 \o digitsOnly
            ELSE Trim(cleaned)

Suffixes9 == Suffixes1 \cup {<<"i", "o">>, <<"m", "e">>, <<"i", "n", "f", "o">>, <<"b", "i", "z">>}

\* new URL(url).hostname for a url that starts with http:// or https://:
\* the text between the scheme and the next "/"; an empty host does not parse
Hostname(url) ==
    LET rest == StripScheme(url)
        slashes == {i \in 1..Len(rest) : rest[i] = "/"}
    IN IF slashes = {} THEN rest
       ELSE SubSeq(rest, 1, (CHOOSE i \in slashes : \A j \in slashes : i <= j) - 1)

\* formatWebsite
FormatWebsite9(websiteInput) ==
    IF ~Truthy(websiteInput) \/ Trim(websiteInput.v) = <<>> THEN <<>>
    ELSE LET url == ToLowerCase(Trim(websiteInput.v))
             full == /\ (StartsWith(url, Http) \/ StartsWith(url, Https))
                     /\ Hostname(url) # <<>>
                     /\ ~Includes(Hostname(url), <<"l", "o", "c", "a", "l", "h", "o", "s", "t">>)
                     /\ ~StartsWith(Hostname(url), <<"1", "2", "7", ".">>)
             bare == StripScheme(StripWww(url))
             addWww == \E suffix \in Suffixes9 :
                          /\ SimpleDomainWith(bare, suffix, Alnum \cup {"-"})
                          /\ ~Includes(bare, <<".">> \o suffix)
         IN IF full THEN url
            ELSE IF ~DomainRegex(bare) THEN <<>>
            ELSE IF addWww THEN Https \o Www \o bare
            ELSE Https \o bare

\* errorMessage.toLowerCase() includes 'required' or 'must be'
RequiredLike ==
    {"Required", "Business name is required", "Business name must be at least 2 characters",
     "Description is required", "Description must be at least 10 characters",
     "Email is required", "Phone number must be at least 10 digits",
     "Website must be at least 3 characters"}

FieldName9(path) == IF path = "" THEN "general" ELSE path

\* the forEach over the issues: a required-like message overwrites, any other
\* message is kept only if the field has none yet
RECURSIVE FieldErrors9(_)
FieldErrors9(issues) ==
    IF issues = <<>>
    THEN Put(<<>>, "general", "An unexpected validation error occurred")
    ELSE LET acc == FieldErrors9(SubSeq(issues, 1, Len(issues) - 1))
             issue == issues[Len(issues)]
             fieldName == FieldName9(issue.path)
         IN IF issue.message \in RequiredLike \/ fieldName \notin Keys(acc)
            THEN Put(acc, fieldName, issue.message)
            ELSE acc

DisplayName9(field) ==
    CASE field = "name" -> "Business Name"
      [] field = "description" -> "Business Description"
      [] field = "email" -> "Email Address"
      [] field = "phone" -> "Phone Number"
      [] field = "website" -> "Website URL"
      [] field = "openingTime" -> "Opening Time"
      [] field = "closingTime" -> "Closing Time"
      [] field = "general" -> "Form Submission Error"
      [] OTHER -> field

\* the map with its keys replaced by the display names
UserFriendly9(map) ==
    LET field(d) == CHOOSE k \in Keys(map) : DisplayName9(k) = d IN
    [d \in {DisplayName9(k) : k \in Keys(map)} |-> map[field(d)]]

\* the errors of the schema stage
SchemaStageErrors9(issues) ==
    LET fieldErrors == FieldErrors9(issues)
        dropGeneral == /\ Cardinality(Keys(fieldErrors)) > 1
                       /\ \A i \in 1..Len(issues) : issues[i].path # ""
    IN UserFriendly9(IF dropGeneral
                     THEN [k \in Keys(fieldErrors) \ {"general"} |-> fieldErrors[k]]
                     ELSE fieldErrors)

\* formattedData
FormattedData9(validatedData) ==
    [name |-> TrimIfString(validatedData.name),
     description |-> TrimIfString(validatedData.description),
     email |-> TrimIfString(validatedData.email),
     phone |-> Str(FormatUKPhone9(validatedData.phone)),
     website |-> Str(FormatWebsite9(validatedData.website)),
     openingTime |-> TrimIfString(validatedData.openingTime),
     closingTime |-> TrimIfString(validatedData.closingTime)]

\* requiredFieldErrors
RequiredFieldErrors9(d) ==
    LET name == Trim(d.name.v)
        description == Trim(d.description.v)
        email == Trim(d.email.v)
        e1 == IF Len(name) < MinName
              THEN Put(<<>>, "name", "Business name is required and must be at least 2 characters long")
              ELSE IF Len(name) > MaxName
              THEN Put(<<>>, "name", "Business name cannot exceed 100 characters")
              ELSE <<>>
        e2 == IF Len(description) < MinDescription
              THEN Put(e1, "description", "Business description is required and must be at least 10 characters long")
              ELSE IF Len(description) > MaxDescription
              THEN Put(e1, "description", "Business description cannot exceed 500 characters")
              ELSE e1
    IN IF email = <<>> THEN Put(e2, "email", "Email address is required")
       ELSE IF ~IsEmail(email)
       THEN Put(e2, "email", "Please enter a valid email address (e.g., name@example.com)")
       ELSE e2

\* the phone check of the final stage, applied to the formatted phone
PhoneRejected9(phone) ==
    /\ Trim(phone) # <<>>
    /\ (~PhoneRegex(Trim(phone)) \/ Len(Trim(phone)) < MinPhone)

\* the website check of the final stage, applied to the formatted website
WebsiteRejected9(website) ==
    /\ Trim(website) # <<>>
    /\ \/ ~WebsiteRegex(Trim(website))
       \/ Len(Trim(website)) < MinWebsite
       \/ Len(Trim(website)) > MaxWebsite

\* optionalFieldErrors
OptionalFieldErrors9(d) ==
    LET e1 == IF PhoneRejected9(d.phone.v)
              THEN Put(<<>>, "phone", "Please enter a valid UK phone number. Examples: 07123456789, +44 7123 456789, 07123 456789")
              ELSE <<>>
        e2 == IF WebsiteRejected9(d.website.v)
              THEN Put(e1, "website", "Please enter a valid domain name (e.g., example.com, www.example.co.uk). Must be 3-100 characters.")
              ELSE e1
        opening == Trim(d.openingTime.v)
        closing == Trim(d.closingTime.v)
    IN IF opening # <<>> /\ closing # <<>> /\ (~TimeRegex(opening) \/ ~TimeRegex(closing))
       THEN Put(Put(e2, "openingTime", "Please enter valid opening time (HH:MM format, 24-hour)"),
                "closingTime", "Please enter valid closing time (HH:MM format, 24-hour)")
       ELSE e2

Part009Response(body, ms, random) ==
    IF body.kind \in {"unparseable", "null", "scalar"}
    THEN Response(400, FALSE, <<>>, NoData, "none", FALSE, NoId)
    ELSE LET issues == ZodIssues(body, SchemaFullIssues(body.f)) IN
         IF issues # <<>>
         THEN Response(400, FALSE, SchemaStageErrors9(issues), NoData, "none", FALSE, NoId)
         ELSE LET validatedData == SchemaFullTransform(body.f)
                  formattedData == FormattedData9(validatedData)
                  openingTime == formattedData.openingTime.v
                  closingTime == formattedData.closingTime.v
                  timeWarning ==
                      /\ openingTime # <<>> /\ closingTime # <<>>
                      /\ TimeRegex(openingTime) /\ TimeRegex(closingTime)
                      /\ DateGeq(DateOf(openingTime), DateOf(closingTime))
                  allErrors == OptionalFieldErrors9(formattedData)
                               @@ RequiredFieldErrors9(formattedData)
              IN IF Keys(allErrors) # {}
                 THEN Response(400, FALSE, UserFriendly9(allErrors), NoData, "none", FALSE, NoId)
                 ELSE Response(201, TRUE, <<>>, formattedData, "pending_review", timeWarning,
                               [prefix |-> "business_", ms |-> ms, random |-> random])

----------------------------------------------------------------------------
(* The version of POST that answers with ids biz_..., on the five-field    *)
(* baseSchema                                                              *)

\* fieldMap[firstField] || firstField, 'General' for an issue without a path
FieldMap8(field) == DisplayName2(field)

\* validationResult.error.issues.forEach(issue => errors[fieldName] = issue.message)
RECURSIVE Errors8(_)
Errors8(issues) ==
    IF issues = <<>> THEN <<>>
    ELSE Put(Errors8(SubSeq(issues, 1, Len(issues) - 1)),
             FieldMap8(issues[Len(issues)].path), issues[Len(issues)].message)

\* the check of the operating hours: openingDate >= closingDate
TimeWarning8(opening, closing) ==
    /\ opening # <<>> /\ closing # <<>>
    /\ TimeRegex(opening) /\ TimeRegex(closing)
    /\ DateGeq(DateOf(opening), DateOf(closing))

\* processedData
ProcessedData8(validatedData) ==
    [name |-> Str(Trim(validatedData.name.v)),
     description |-> Str(Trim(validatedData.description.v)),
     email |-> Str(Trim(validatedData.email.v)),
     openingTime |-> Str(Trim(validatedData.openingTime.v)),
     closingTime |-> Str(Trim(validatedData.closingTime.v)),
     phone |-> Undefined,
     website |-> Undefined]

\* requiredErrors, under the display names of userErrors
RequiredErrors8(d) ==
    LET e1 == IF Trim(d.name.v) = <<>>
              THEN Put(<<>>, "Business Name", "Business name is required")
              ELSE IF Len(d.name.v) > MaxName
              THEN Put(<<>>, "Business Name", "Business name too long (max 100 characters)")
              ELSE <<>>
        e2 == IF Trim(d.description.v) = <<>>
              THEN Put(e1, "Business Description", "Description is required")
              ELSE IF Len(d.description.v) < MinDescription
              THEN Put(e1, "Business Description", "Description too short (min 10 characters)")
              ELSE IF Len(d.description.v) > MaxDescription
              THEN Put(e1, "Business Description", "Description too long (max 500 characters)")
              ELSE e1
    IN IF Trim(d.email.v) = <<>> THEN Put(e2, "Email Address", "Email address is required")
       ELSE IF ~IsEmail(d.email.v)
       THEN Put(e2, "Email Address", "Please enter a valid email address")
       ELSE e2

Part008Response(body, ms) ==
    IF body.kind = "unparseable"
    THEN Response(400, FALSE, Put(<<>>, "Request Format", "Please ensure your data is valid JSON."),
                  NoData, "none", FALSE, NoId)
    ELSE IF body.kind # "object"
    THEN Response(400, FALSE, Put(<<>>, "Request Body", "Expected a valid JSON object."),
                  NoData, "none", FALSE, NoId)
    ELSE LET issues == SchemaBaseIssues(body.f) IN
         IF issues # <<>>
         THEN Response(400, FALSE, Errors8(issues), NoData, "none", FALSE, NoId)
         ELSE LET validatedData == SchemaBaseTransform(body.f)
                  timeWarning == TimeWarning8(Trim(validatedData.openingTime.v),
                                              Trim(validatedData.closingTime.v))
                  processedData == ProcessedData8(validatedData)
                  requiredErrors == RequiredErrors8(processedData)
              IN IF requiredErrors # <<>>
                 THEN Response(400, FALSE, requiredErrors, NoData, "none", FALSE, NoId)
                 ELSE Response(201, TRUE, <<>>, processedData, "pending_review", timeWarning,
                               [prefix |-> "biz_", ms |-> ms, random |-> 0])

----------------------------------------------------------------------------
(* Businesses: convex/business.ts updateBusiness, app/actions.ts EditBusiness *)

\* MODEL BOUNDS
NumEditors == 2

MaxEdits == 2

Editors == 1..NumEditors

\* sample strings
NameJoes == <<"J", "o", "e", "'", "s", " ", "C", "a", "f", "e">>

NameRuns == <<"A", "b", " ", " ", "C", "-", "d">>

SlugJoesHyphenated == <<"j", "o", "e", "'", "s", "-", "c", "a", "f", "e">>

SlugJoes == <<"j", "o", "e", "'", "s", "c", "a", "f", "e">>

DescriptionNew == <<"n", "e", "w">>

DescriptionOld == <<"o", "l", "d">>

EmailShop == <<"s", "@", "h", ".", "o", "p">>

\* s.replace(/\s+/g, "-"): every run of white space becomes one hyphen
RECURSIVE ReplaceWhiteSpaceRuns(_)
ReplaceWhiteSpaceRuns(s) ==
    IF s = <<>> THEN <<>>
    ELSE IF s[1] \in WhiteSpace
    THEN <<"-">> \o ReplaceWhiteSpaceRuns(TrimStart(s))
    ELSE <<s[1]>> \o ReplaceWhiteSpaceRuns(Substring(s, 1))

\* the slug with its hyphens kept
KeepHyphens(s) == s

\* s.replace(/-/g, "")
RemoveHyphens(s) == SelectSeq(s, LAMBDA c : c # "-")

\* base.trim().toLowerCase().replace(/\s+/g, "-")
Hyphenate(base) == ReplaceWhiteSpaceRuns(ToLowerCase(Trim(base)))

\* x ?? y
Coalesce(x, y) == IF x.t = "undefined" THEN y ELSE x

\* desiredSlug: undefined when neither slug nor name is a non-empty string
DesiredSlug(args) ==
    LET baseForSlug == Coalesce(Coalesce(args.slug, args.name), Str(<<>>)) IN
    IF Truthy(baseForSlug) THEN Str(Hyphenate(baseForSlug.v)) ELSE Undefined

\* businesses.find(pred), given the positions of the documents that
\* satisfy pred: the first of them, 0 for undefined
Find(found) ==
    IF found = {} THEN 0 ELSE CHOOSE i \in found : \A j \in found : i <= j

\* target = existingBySlug ?? existingByName
Target(db, args) ==
    LET desiredSlug == DesiredSlug(args)
        existingBySlug == IF Truthy(desiredSlug)
                          THEN Find({i \in 1..Len(db) : db[i].slug = desiredSlug})
                          ELSE 0
        existingByName == IF Truthy(args.name)
                          THEN Find({i \in 1..Len(db) : db[i].name = args.name})
                          ELSE 0
    IN IF existingBySlug # 0 THEN existingBySlug ELSE existingByName

\* normalizedSlug
NormalizedSlug(args, target) ==
    LET slug == Coalesce(DesiredSlug(args), target.slug) IN
    IF Truthy(slug) THEN Str(RemoveHyphens(slug.v)) ELSE Undefined

\* update that keeps the stored value of a field the call does not give
UpdateMerging(args, target) ==
    [name |-> Coalesce(args.name, target.name),
     description |-> Coalesce(args.description, target.description),
     email |-> Coalesce(args.email, target.email),
     slug |-> NormalizedSlug(args, target)]

\* update
Update(args, target) ==
    [name |-> args.name,
     description |-> args.description,
     email |-> args.email,
     slug |-> NormalizedSlug(args, target)]

\* the businesses table's validator: name is v.string(), the others optional
BusinessesTableAccepts(doc) == doc.name.t = "string"

\* ctx.db.patch(id, update): the fields of update replace those of the
\* document (a field set to undefined is removed)
Patch(db, id, update) == [db EXCEPT ![id] = update]

\* the values of the edit form (editBusinessFormSchema)
EditBusinessFormValues ==
    [name : {Str(NameJoes), Str(NameRuns)},
     description : {Str(DescriptionNew)},
     email : {Str(EmailShop)}]

\* args.business of direct calls of the mutation
UpdateBusinessArgs ==
    [name : {Undefined, Str(NameJoes)},
     description : {Str(DescriptionNew)},
     email : {Undefined},
     slug : {Undefined, Str(SlugJoes), Str(NameRuns)}]

\* the URL parameters with which the edit page is opened
EditPageParams == {SlugJoesHyphenated, SlugJoes}

\* name?.replace(/ /g, '-')
PageSlug(name) == [i \in 1..Len(name) |-> IF name[i] = " " THEN "-" ELSE name[i]]

\* the business of the edit page: businesses?.find((business) =>
\* business.slug === slug), 0 for undefined
PageBusiness(db, name) ==
    Find({i \in 1..Len(db) : db[i].slug = Str(PageSlug(name))})

NoEdit == [pc |-> "idle", via |-> "none", business |-> 0,
           args |-> [name |-> Undefined, description |-> Undefined,
                     email |-> Undefined, slug |-> Undefined],
           snap |-> <<>>, target |-> 0, retries |-> 0, error |-> "none"]

SetEditor(p, rec) == editors' = [editors EXCEPT ![p] = rec]

\* the form of the edit page opened with the parameter is submitted; the
\* server action: slug from the name, then the mutation
EditBusiness(p, param, data) ==
    /\ editors[p].pc = "idle"
    /\ edits < MaxEdits
    /\ edits' = edits + 1
    /\ SetEditor(p, [NoEdit EXCEPT !.pc = "read", !.via = "form",
                        !.business = PageBusiness(businesses, param),
                        !.args = [name |-> data.name, description |-> data.description,
                                  email |-> data.email,
                                  slug |-> Str(Hyphenate(data.name.v))]])
    /\ UNCHANGED <<businesses, wlVars, sbVars, uiVars>>

\* a client calls the public mutation api.business.updateBusiness
CallUpdateBusiness(p, args) ==
    /\ editors[p].pc = "idle"
    /\ edits < MaxEdits
    /\ edits' = edits + 1
    /\ SetEditor(p, [NoEdit EXCEPT !.pc = "read", !.via = "mutation", !.args = args])
    /\ UNCHANGED <<businesses, wlVars, sbVars, uiVars>>

\* const businesses = await ctx.db.query("businesses").collect(), up to the
\* choice of the target: throw new Error("Business not found") without one
ReadBusinesses(p) ==
    LET e == editors[p]
        target == Target(businesses, e.args)
    IN /\ e.pc = "read"
       /\ IF target = 0
          THEN SetEditor(p, [e EXCEPT !.pc = "done", !.snap = businesses,
                                      !.error = "Business not found"])
          ELSE SetEditor(p, [e EXCEPT !.pc = "commit", !.snap = businesses,
                                      !.target = target])
       /\ UNCHANGED <<businesses, edits, wlVars, sbVars, uiVars>>

\* ctx.db.patch(target._id, update) and the commit of the transaction, which
\* is re-run when the table it read has changed since
CommitUpdate(p) ==
    LET e == editors[p]
        update == Update(e.args, e.snap[e.target])
    IN /\ e.pc = "commit"
       /\ IF e.snap # businesses
          THEN /\ SetEditor(p, [e EXCEPT !.pc = "read", !.target = 0,
                                         !.retries = e.retries + 1])
               /\ UNCHANGED businesses
          ELSE IF ~BusinessesTableAccepts(update)
          THEN /\ SetEditor(p, [e EXCEPT !.pc = "done",
                                         !.error = "schema validation failed"])
               /\ UNCHANGED businesses
          ELSE /\ businesses' = Patch(businesses, e.target, update)
               /\ SetEditor(p, [e EXCEPT !.pc = "done"])
       /\ UNCHANGED <<edits, wlVars, sbVars, uiVars>>

\* the caller receives the result
FinishUpdate(p) ==
    /\ editors[p].pc = "done"
    /\ SetEditor(p, NoEdit)
    /\ UNCHANGED <<businesses, edits, wlVars, sbVars, uiVars>>

\* tables the store can hold when the edits start
SeedBusinesses ==
    {<<[name |-> Str(NameJoes), description |-> Str(DescriptionOld),
        email |-> Undefined, slug |-> Str(SlugJoesHyphenated)],
       [name |-> Str(NameRuns), description |-> Undefined,
        email |-> Undefined, slug |-> Undefined]>>,
     <<[name |-> Str(NameRuns), description |-> Str(DescriptionOld),
        email |-> Str(EmailShop), slug |-> Str(SlugJoes)],
       [name |-> Str(NameJoes), description |-> Undefined,
        email |-> Undefined, slug |-> Str(SlugJoes)]>>}

IdleBusinesses ==
    /\ businesses = <<>>
    /\ editors = [p \in Editors |-> NoEdit]
    /\ edits = 0

BusinessInit ==
    /\ businesses \in SeedBusinesses
    /\ editors = [p \in Editors |-> NoEdit]
    /\ edits = 0

BusinessNext ==
    \E p \in Editors :
        \/ \E param \in EditPageParams, data \in EditBusinessFormValues :
              EditBusiness(p, param, data)
        \/ \E args \in UpdateBusinessArgs : CallUpdateBusiness(p, args)
        \/ ReadBusinesses(p)
        \/ CommitUpdate(p)
        \/ FinishUpdate(p)

----------------------------------------------------------------------------
(* POST /api/submit-business as a state machine: one request is received,  *)
(* handled by one version of the route, and answered                       *)

\* MODEL BOUNDS
MaxVaried == 2

MaxClock == 1

MaxRandom == 1

Chars(c, n) == [i \in 1..n |-> c]

NameShort == Str(<<"X">>)

NamePadded == Str(<<" ", " ", "A", " ", "B", " ", " ">>)

NameLongest == Str(Chars("n", MaxName))

NameLongestPadded == Str(Chars("n", MaxName) \o <<" ">>)

DescriptionOk == Str(<<"0", "1", "2", "3", "4", "5", "6", "7", "8", "9">>)

DescriptionShort == Str(<<"s", "h", "o", "r", "t">>)

EmailBadValue == Str(EmailBad)

Phone07 == Str(<<"0", "7", "1", "2", "3", "4", "5", "6", "7", "8", "9">>)

Phone07Spaced == Str(<<"0", "7", "1", "2", "3", " ", "4", "5", "6", "7", "8", "9">>)

Phone44Spaced == Str(<<"+", "4", "4", " ", "7", "1", "2", "3", " ", "4", "5", "6", "7", "8", "9">>)

Phone7 == Str(<<"7", "1", "2", "3", "4", "5", "6", "7", "8", "9">>)

Phone7Spaced == Str(<<"7", "1", "2", "3", " ", "4", "5", "6", " ", "7", "8", "9">>)

PhoneBad == Str(<<"1", "2", "3", "4", "5">>)

PhoneCanonical == Str(<<"+", "4", "4", "7", "1", "2", "3", "4", "5", "6", "7", "8", "9">>)

WebsiteBare == Str(<<"e", "x", "a", "m", "p", "l", "e", ".", "c", "o", ".", "u", "k">>)

WebsiteWww == Str(Www \o WebsiteBare.v)

WebsiteUrl == Str(Https \o Www \o WebsiteBare.v)

WebsiteNoDot == Str(<<"a", "b", "c">>)

WebsiteEmptyLabel == Str(<<"a", ".", ".", "b">>)

Time0900 == Str(<<"0", "9", ":", "0", "0">>)

Time1800 == Str(<<"1", "8", ":", "0", "0">>)

Time900 == Str(<<"9", ":", "0", "0">>)

Time2500 == Str(<<"2", "5", ":", "0", "0">>)

Names == {Undefined, NotAString, Str(<<>>), NameShort, NamePadded, NameLongest, NameLongestPadded}

Descriptions == {Undefined, DescriptionOk, DescriptionShort}

Emails == {Undefined, Str(EmailLower), EmailBadValue}

Phones == {Undefined, Str(<<>>), Phone07, Phone07Spaced, Phone44Spaced, Phone7, Phone7Spaced,
           PhoneBad, PhoneCanonical}

Websites == {Undefined, Str(<<>>), WebsiteBare, WebsiteWww, WebsiteUrl, WebsiteNoDot,
             WebsiteEmptyLabel}

Times == {Undefined, Str(<<>>), Time0900, Time1800, Time900, Time2500}

OptionalFields == {"phone", "website", "openingTime", "closingTime"}

\* the JSON objects sent: any required fields, at most MaxVaried optional ones
Objects ==
    {f \in [name : Names, description : Descriptions, email : Emails, phone : Phones,
            website : Websites, openingTime : Times, closingTime : Times] :
        Cardinality({k \in OptionalFields : f[k] # Undefined}) <= MaxVaried}

Bodies ==
    {[kind |-> "object", f |-> f] : f \in Objects}
    \cup {[kind |-> k, f |-> NoData] : k \in {"unparseable", "null", "array", "scalar"}}

Routes == {"route1", "route2", "part008", "part009"}

NoRequest == [route |-> "none", body |-> [kind |-> "null", f |-> NoData]]

NoResponse == Response(0, FALSE, <<>>, NoData, "none", FALSE, NoId)

Receive(route, body) ==
    /\ phase = "idle"
    /\ phase' = "received"
    /\ request' = [route |-> route, body |-> body]
    /\ UNCHANGED <<response, submittedBusinesses, issued, wlVars, bzVars, uiVars>>

Route1POST ==
    /\ phase = "received" /\ request.route = "route1"
    /\ \E ms \in 0..MaxClock : response' = Route1Response(request.body, ms)
    /\ phase' = "responded"
    /\ UNCHANGED <<request, submittedBusinesses, issued, wlVars, bzVars, uiVars>>

\* up to the call of convex.mutation(api.submittedBusinesses.addSubmittedBusiness)
Route2POST ==
    /\ phase = "received" /\ request.route = "route2"
    /\ \E ms \in 0..MaxClock : response' = Route2Response(request.body, ms)
    /\ phase' = IF response'.success THEN "saving" ELSE "responded"
    /\ UNCHANGED <<request, submittedBusinesses, issued, wlVars, bzVars, uiVars>>

\* addSubmittedBusiness: ctx.db.insert("submittedBusinesses", args.business)
Route2Saved ==
    /\ phase = "saving"
    /\ submittedBusinesses' = Append(submittedBusinesses, BusinessInput2(response.data))
    /\ phase' = "responded"
    /\ UNCHANGED <<request, response, issued, wlVars, bzVars, uiVars>>

\* the mutation throws (store unreachable): the catch block answers
Route2SaveFailed ==
    /\ phase = "saving"
    /\ response' = ServerError2
    /\ phase' = "responded"
    /\ UNCHANGED <<request, submittedBusinesses, issued, wlVars, bzVars, uiVars>>

Part008POST ==
    /\ phase = "received" /\ request.route = "part008"
    /\ \E ms \in 0..MaxClock : response' = Part008Response(request.body, ms)
    /\ phase' = "responded"
    /\ UNCHANGED <<request, submittedBusinesses, issued, wlVars, bzVars, uiVars>>

Part009POST ==
    /\ phase = "received" /\ request.route = "part009"
    /\ \E ms \in 0..MaxClock, random \in 0..MaxRandom :
          response' = Part009Response(request.body, ms, random)
    /\ phase' = "responded"
    /\ UNCHANGED <<request, submittedBusinesses, issued, wlVars, bzVars, uiVars>>

SubmitInit ==
    /\ phase = "idle"
    /\ request = NoRequest
    /\ response = NoResponse
    /\ submittedBusinesses = <<>>
    /\ issued = <<>>

MaxRequests == 2

\* the _id the store gives to its i-th document: a value of the store's own
\* making, which is no business_<ms> or biz_<ms>
StoreId(i) == [prefix |-> "_id", ms |-> 0, random |-> i]

\* what a successful answer hands out: its id, and the number of the document
\* the request has stored, 0 if it has stored none
Handout ==
    [id |-> response.id,
     doc |-> IF request.route = "route2" THEN Len(submittedBusinesses) ELSE 0]

\* the client has its answer and the next request can come
NextRequest ==
    /\ phase = "responded"
    /\ Len(issued) < MaxRequests - 1
    /\ phase' = "idle"
    /\ request' = NoRequest
    /\ response' = NoResponse
    /\ issued' = IF response.success THEN Append(issued, Handout) ELSE issued
    /\ UNCHANGED <<submittedBusinesses, wlVars, bzVars, uiVars>>

\* bodies of requests that follow each other: two that are accepted, one
\* that is not
IdBodies ==
    {[kind |-> "object",
      f |-> [name |-> name, description |-> DescriptionOk, email |-> Str(EmailLower),
             phone |-> Undefined, website |-> Undefined,
             openingTime |-> Undefined, closingTime |-> Undefined]] :
        name \in {NamePadded, NameLongest, Undefined}}

\* the versions that hand out an id made of Date.now() alone
IdRoutes == {"route2", "part008"}

IdsNext ==
    \/ phase = "idle" /\ \E route \in IdRoutes, body \in IdBodies : Receive(route, body)
    \/ Route2POST
    \/ Route2Saved
    \/ Route2SaveFailed
    \/ Part008POST
    \/ NextRequest

SubmitNext ==
    \/ phase = "idle" /\ \E route \in Routes, body \in Bodies : Receive(route, body)
    \/ Route1POST
    \/ Route2POST
    \/ Route2Saved
    \/ Route2SaveFailed
    \/ Part008POST
    \/ Part009POST

-----------------------------------------------------------------------------
(* The form stepper: hooks/use-stepper.tsx.  A schema is known by the step it
   belongs to; of the form's values the model keeps which schemas accept
   them.  A handler runs on the closures of the latest render: React renders
   the update of a handler before it dispatches the next event. *)

MaxSteps == 3

\* setCurrentStep((prev) => prev + 1) without the bound
NextStepUnbounded(prev, count) == prev + 1

\* Math.min(prev + 1, stepCount)
NextStep(prev, count) == IF prev + 1 < count THEN prev + 1 ELSE count

\* Math.max(prev - 1, 1)
PrevStep(prev) == IF prev - 1 > 1 THEN prev - 1 ELSE 1

\* a stepper that is never completed
NeverCompleted(step, count) == FALSE

\* step.isCompleted
IsCompleted(step, count) == step = count

IsFirstStep(step) == step = 1

\* schemas[currentStep - 1]: the schema of the step, 0 for undefined
CurrentValidator(step, count) == IF step \in 1..count THEN step ELSE 0

\* a validation that accepts everything
SafeParseAccepts(validator, values) == TRUE

\* currentValidator.safeParse(form.state.values).success
SafeParse(validator, values) == validator \in values

NoSubmit == [invoked |-> FALSE, step |-> 0]

NoCall == [op |-> "none", from |-> 1, success |-> FALSE, handleSubmit |-> NoSubmit,
           opts |-> {}, called |-> {}]

\* the user changes the values of the form
ChangeValues(values) ==
    /\ values # accepted
    /\ accepted' = values
    /\ UNCHANGED <<stepCount, currentStep, last, fmVars, serverVars>>

\* step.goToNextStep()
GoToNextStep ==
    /\ currentStep' = NextStep(currentStep, stepCount)
    /\ last' = [NoCall EXCEPT !.op = "goToNextStep", !.from = currentStep]
    /\ UNCHANGED <<stepCount, accepted, fmVars, serverVars>>

\* step.goToPrevStep()
GoToPrevStep ==
    /\ currentStep' = PrevStep(currentStep)
    /\ last' = [NoCall EXCEPT !.op = "goToPrevStep", !.from = currentStep]
    /\ UNCHANGED <<stepCount, accepted, fmVars, serverVars>>

\* handleNextStepOrSubmit(form), with triggerFormGroup(form): the rejected
\* values are submitted with the step as meta, the accepted ones move the
\* stepper on or, on the last step, are submitted without meta
HandleNextStepOrSubmit ==
    LET success == SafeParse(CurrentValidator(currentStep, stepCount), accepted)
        call == [NoCall EXCEPT !.op = "handleNextStepOrSubmit", !.from = currentStep,
                               !.success = success]
    IN /\ IF ~success
          THEN /\ last' = [call EXCEPT !.handleSubmit = [invoked |-> TRUE, step |-> currentStep]]
               /\ UNCHANGED currentStep
          ELSE IF currentStep < stepCount
          THEN /\ currentStep' = NextStep(currentStep, stepCount)
               /\ last' = call
          ELSE IF currentStep = stepCount
          THEN /\ last' = [call EXCEPT !.handleSubmit = [invoked |-> TRUE, step |-> 0]]
               /\ UNCHANGED currentStep
          ELSE /\ last' = call
               /\ UNCHANGED currentStep
       /\ UNCHANGED <<stepCount, accepted, fmVars, serverVars>>

\* handleCancelOrBack(opts): opts holds the callbacks that are given
HandleCancelOrBack(opts) ==
    LET call == [NoCall EXCEPT !.op = "handleCancelOrBack", !.from = currentStep,
                               !.opts = opts]
    IN /\ IF IsFirstStep(currentStep) \/ IsCompleted(currentStep, stepCount)
          THEN /\ last' = [call EXCEPT !.called = opts \cap {"onCancel"}]
               /\ UNCHANGED currentStep
          ELSE IF currentStep > 1
          THEN /\ last' = [call EXCEPT !.called = opts \cap {"onBack"}]
               /\ currentStep' = PrevStep(currentStep)
          ELSE /\ last' = call
               /\ UNCHANGED currentStep
       /\ UNCHANGED <<stepCount, accepted, fmVars, serverVars>>

\* no stepper in use
IdleStepper ==
    /\ stepCount = 1
    /\ currentStep = 1
    /\ accepted = {}
    /\ last = NoCall

\* useFormStepper(schemas) with at least one schema: useState(1)
StepperInit ==
    /\ stepCount \in 1..MaxSteps
    /\ currentStep = 1
    /\ accepted \in SUBSET (1..stepCount)
    /\ last = NoCall

StepperNext ==
    \/ \E values \in SUBSET (1..stepCount) : ChangeValues(values)
    \/ GoToNextStep
    \/ GoToPrevStep
    \/ HandleNextStepOrSubmit
    \/ \E opts \in SUBSET {"onBack", "onCancel"} : HandleCancelOrBack(opts)

-----------------------------------------------------------------------------
(* The forms of the web app.  SubmitBusinessForm posts through the
   handleSubmit of the page that hosts it; SubmitBusinessForm2 and
   EditBusinessForm call a server action. *)

\* the versions of app/submit-business/page.tsx
Pages == {"page.tsx", "part_007"}

\* what fetch('/api/submit-business') comes to: a status, or "failed" when
\* the promise is rejected
Outcomes == {"201", "400", "500", "failed"}

\* response.ok
Ok(outcome) == outcome = "201"

\* handleSubmit of the page, from the answer on: the notifications it shows
\* and whether it throws to its caller
HandleSubmit(page, outcome) ==
    IF page = "page.tsx"
    THEN IF Ok(outcome)
         THEN [toasts |-> {"page: success"}, throws |-> FALSE]
         ELSE [toasts |-> {"page: error"}, throws |-> TRUE]
    ELSE IF Ok(outcome)
         THEN [toasts |-> {"page: success"}, throws |-> FALSE]
         ELSE [toasts |-> {"page: error"}, throws |-> FALSE]

IdleSubmitForm(page) ==
    [page |-> page, pc |-> "idle", values |-> "entered", isSubmitting |-> FALSE,
     outcome |-> "none", toasts |-> {}]

\* onSubmitHandler, called by form.handleSubmit with valid values, up to the
\* fetch of handleSubmit: setIsSubmitting(true)
OnSubmitHandler ==
    /\ submitForm.pc = "idle"
    /\ submitForm.values = "entered"
    /\ submitForm' = [submitForm EXCEPT !.pc = "fetching", !.isSubmitting = TRUE,
                                        !.outcome = "none", !.toasts = {}]
    /\ UNCHANGED <<actionForm, stVars, serverVars>>

\* the fetch settles: the rest of handleSubmit with setIsSubmitting(false) in
\* its finally, then the rest of onSubmitHandler, which shows the success
\* notification and resets the form unless onSubmit has thrown
FetchSettles(outcome) ==
    LET handled == HandleSubmit(submitForm.page, outcome) IN
    /\ submitForm.pc = "fetching"
    /\ submitForm' =
          [submitForm EXCEPT
              !.pc = "done", !.isSubmitting = FALSE, !.outcome = outcome,
              !.toasts = handled.toasts
                         \cup (IF handled.throws THEN {"form: error"} ELSE {"form: success"}),
              !.values = IF handled.throws THEN "entered" ELSE "defaults"]
    /\ UNCHANGED <<actionForm, stVars, serverVars>>

\* the user fills the form in again
EnterValues ==
    /\ submitForm.pc = "done"
    /\ submitForm' = [submitForm EXCEPT !.pc = "idle", !.values = "entered"]
    /\ UNCHANGED <<actionForm, stVars, serverVars>>

IdleActionForm == [pc |-> "idle", form |-> "none", mutation |-> "none", toasts |-> {}]

\* the forms that call a server action, with the mutation of the action
ActionForms == {"SubmitBusinessForm2", "EditBusinessForm"}

\* onSubmit: toast.success("success"), then SubmitBusiness(value) or
\* EditBusiness(value), which is not awaited
OnSubmit(form) ==
    /\ actionForm.pc = "idle"
    /\ actionForm' = [pc |-> "called", form |-> form, mutation |-> "running",
                      toasts |-> {"success"}]
    /\ UNCHANGED <<submitForm, stVars, serverVars>>

\* await convex.mutation(...) of the server action returns
MutationReturns ==
    /\ actionForm.pc = "called"
    /\ actionForm' = [actionForm EXCEPT !.pc = "done", !.mutation = "succeeded"]
    /\ UNCHANGED <<submitForm, stVars, serverVars>>

\* await convex.mutation(...) throws: the promise of the server action is
\* rejected, and nobody handles the rejection
MutationThrows ==
    /\ actionForm.pc = "called"
    /\ actionForm' = [actionForm EXCEPT !.pc = "done", !.mutation = "failed"]
    /\ UNCHANGED <<submitForm, stVars, serverVars>>

\* the notification has gone and the form is used again
NextAttempt ==
    /\ actionForm.pc = "done"
    /\ actionForm' = IdleActionForm
    /\ UNCHANGED <<submitForm, stVars, serverVars>>

IdleForms ==
    /\ submitForm = IdleSubmitForm("page.tsx")
    /\ actionForm = IdleActionForm

FormsInit ==
    /\ submitForm \in {IdleSubmitForm(page) : page \in Pages}
    /\ actionForm = IdleActionForm

FormsNext ==
    \/ OnSubmitHandler
    \/ \E outcome \in Outcomes : FetchSettles(outcome)
    \/ EnterValues
    \/ \E form \in ActionForms : OnSubmit(form)
    \/ MutationReturns
    \/ MutationThrows
    \/ NextAttempt

IdleUi == IdleStepper /\ IdleForms

Init == WaitlistInit /\ SubmitInit /\ IdleBusinesses /\ IdleUi

InitBusiness == WaitlistInit /\ SubmitInit /\ BusinessInit /\ IdleUi

InitStepper == WaitlistInit /\ SubmitInit /\ IdleBusinesses /\ StepperInit /\ IdleForms

InitForms == WaitlistInit /\ SubmitInit /\ IdleBusinesses /\ IdleStepper /\ FormsInit

SpecWaitlist == Init /\ [][WaitlistNext]_vars

SpecSubmit == Init /\ [][SubmitNext]_vars

SpecBusiness == InitBusiness /\ [][BusinessNext]_vars

SpecIds == Init /\ [][IdsNext]_vars

SpecStepper == InitStepper /\ [][StepperNext]_vars

SpecForms == InitForms /\ [][FormsNext]_vars

----------------------------------------------------------------------------
(* Claims about the waitlist *)

\* the deduplication key of the specification: the email trimmed and lowercased
DedupKey(email) == ToLowerCase(Trim(email))

EntriesFor(email) ==
    {i \in 1..Len(waitlist) : DedupKey(waitlist[i].email) = DedupKey(email)}

FirstSubmissionWins ==
    [][\A p \in Callers :
          (callers[p].pc = "commit" /\ callers[p].existing # 0 /\ callers'[p].pc = "done")
          => waitlist' = waitlist]_vars

\* a repeat call carrying another name and phone than the stored entry's is complete
FirstSubmissionWinsWitness ==
    \E p \in Callers :
        /\ callers[p].pc = "done" /\ callers[p].result.ok /\ callers[p].existing # 0
        /\ waitlist[callers[p].existing].name # callers[p].args.name
        /\ waitlist[callers[p].existing].phone # callers[p].args.phone

\* C4: a completed submission that carried only a valid email not yet in the
\* waitlist has created an entry and returned its identity.
EmailOnlySubmissionCreatesEntry ==
    \A p \in Callers :
        (/\ callers[p].pc = "done"
         /\ callers[p].args.name = Undefined /\ callers[p].args.phone = Undefined
         /\ IsEmail(callers[p].args.email)
         /\ callers[p].existing = 0)
        => /\ callers[p].result.ok
           /\ callers[p].result.id \in EntriesFor(callers[p].args.email)

----------------------------------------------------------------------------
(* Claims about POST /api/submit-business *)

Required == {"name", "description", "email"}

Answered(route) ==
    phase = "responded" /\ request.route = route /\ request.body.kind = "object"

Sent == request.body.f

\* the issues the seven-field schema reports for one field
IssuesOf(field, f) ==
    CASE field = "name" -> NameIssues(f.name, "")
      [] field = "description" -> DescriptionIssues(f.description, "")
      [] field = "email" -> EmailIssues(f.email)
      [] field = "phone" -> PhoneIssues(f.phone)
      [] field = "website" -> WebsiteIssues(f.website)
      [] field = "openingTime" -> TimeIssues(field, f.openingTime, "")
      [] field = "closingTime" -> TimeIssues(field, f.closingTime, "")

Missing(f) == {field \in Required : f[field] = Undefined}

\* every field outside `except` is valid
ValidExcept(f, except) == \A field \in Fields \ except : IssuesOf(field, f) = <<>>

\* the label under which the responses name a field
Label(field) ==
    CASE field = "name" -> "Business Name"
      [] field = "description" -> "Business Description"
      [] field = "email" -> "Email Address"
      [] field = "phone" -> "Phone Number"
      [] field = "website" -> "Website URL"
      [] field = "openingTime" -> "Opening Time"
      [] field = "closingTime" -> "Closing Time"

ValidationCollectsAllErrors ==
    Answered("part009")
    => LET failing == {field \in Fields : IssuesOf(field, Sent) # <<>>} IN
       /\ response.success <=> failing = {}
       /\ ~response.success => \A field \in failing : Label(field) \in Keys(response.errors)
       /\ response.success => Keys(response.errors) = {} /\ response.status = 201

\* C7: with the other fields valid, the submission is accepted exactly when
\* the name is a string of trimmed length 2..100, and the accepted name is
\* the trimmed input.
NameAcceptedByTrimmedLength ==
    \A route \in {"route1", "part009"} :
        (/\ Answered(route)
         /\ ValidExcept(Sent, {"name"})
         /\ \A field \in Fields \ Required : Sent[field] = Undefined)
        => /\ response.success <=>
                /\ IsString(Sent.name)
                /\ Len(Trim(Sent.name.v)) >= 2 /\ Len(Trim(Sent.name.v)) <= 100
           /\ response.success => response.data.name = Str(Trim(Sent.name.v))

Spaces == {" "}

\* 07XXXXXXXXX, +44 7XXX XXXXXX or 7XXXXXXXXX, internal spaces aside
UKForm(s) ==
    LET d == KeepChars(s, Digit \cup {"+"}) IN
    /\ s # <<>> /\ s[1] \notin Spaces /\ s[Len(s)] \notin Spaces
    /\ \A i \in 1..Len(s) : s[i] \in Digit \cup {"+"} \cup Spaces
    /\ \/ Matches(<<One({"0"}), One({"7"}), D, D, D, D, D, D, D, D, D>>, d)
       \/ Matches(<<One({"+"}), One({"4"}), One({"4"}), One({"7"}), D, D, D, D, D, D, D, D, D>>, d)
       \/ Matches(<<One({"7"}), D, D, D, D, D, D, D, D, D>>, d)

\* C8: a phone in one of the three UK forms passes phone validation, and an
\* otherwise valid submission that carries it succeeds.
UKPhoneFormsAccepted ==
    \A route \in {"route1", "part009"} :
        (/\ Answered(route)
         /\ IsString(Sent.phone) /\ UKForm(Sent.phone.v)
         /\ ValidExcept(Sent, {"phone"})
         /\ \A field \in {"website", "openingTime", "closingTime"} : Sent[field] = Undefined)
        => /\ response.success
           /\ "Phone Number" \notin Keys(response.errors)
           /\ "phone" \notin Keys(response.errors)

\* +44 followed by ten digits
Canonical(s) ==
    Matches(<<One({"+"}), One({"4"}), One({"4"}), D, D, D, D, D, D, D, D, D, D>>, s)

\* digits kept; leading 0 replaced by +44, bare 7... prefixed with +44,
\* 44... prefixed with +
CanonicalOf(s) ==
    LET d == KeepChars(s, Digit) IN
    IF d[1] = "0" THEN Plus44 \o Substring(d, 1)
    ELSE IF d[1] = "7" THEN Plus44 \o d
    ELSE <<"+">> \o d

\* C9: the phone of a successful result is the canonical +44XXXXXXXXXX form
\* of the phone that was sent.
PhoneNormalizedInResult ==
    \A route \in Routes :
        (/\ Answered(route) /\ response.success
         /\ IsString(Sent.phone) /\ UKForm(Sent.phone.v))
        => /\ IsString(response.data.phone)
           /\ Canonical(response.data.phone.v)
           /\ response.data.phone.v = CanonicalOf(Sent.phone.v)

\* C10: a website sent as a full URL with scheme is accepted, and the
\* website of the result is the bare domain: scheme and leading www. removed.
FullUrlNormalizedToBareDomain ==
    \A route \in {"route1", "part009"} :
        (/\ Answered(route)
         /\ IsString(Sent.website)
         /\ (StartsWith(Sent.website.v, Http) \/ StartsWith(Sent.website.v, Https))
         /\ DomainRegex(StripWww(StripScheme(Sent.website.v)))
         /\ ValidExcept(Sent, {"website"})
         /\ \A field \in {"phone", "openingTime", "closingTime"} : Sent[field] = Undefined)
        => /\ response.success
           /\ response.data.website = Str(StripWww(StripScheme(Sent.website.v)))

\* label(.label)+ with labels of letters, digits and hyphens, 3 to 100 characters
BareDomainShape(s) ==
    LET labels == Split(s, ".") IN
    /\ Len(s) >= 3 /\ Len(s) <= 100
    /\ Len(labels) >= 2
    /\ \A i \in 1..Len(labels) :
          /\ labels[i] # <<>>
          /\ \A j \in 1..Len(labels[i]) : labels[i][j] \in Alnum \cup {"-"}

\* C11: a submission with a non-empty website succeeds only if the website
\* is a bare domain label(.label)+; a website without a dot or with an empty
\* label is answered with an error on website.
WebsiteMustBeBareDomain ==
    \A route \in {"route1", "part009"} :
        (/\ Answered(route)
         /\ IsString(Sent.website) /\ Sent.website.v # <<>>
         /\ ValidExcept(Sent, {"website"})
         /\ ~BareDomainShape(Sent.website.v))
        => /\ ~response.success
           /\ Keys(response.errors) \cap {"website", "Website URL"} # {}

\* the number a string of digits denotes
RECURSIVE NumberOf(_)
NumberOf(ds) ==
    IF ds = <<>> THEN 0
    ELSE 10 * NumberOf(SubSeq(ds, 1, Len(ds) - 1)) + DigitVal(ds[Len(ds)])

\* minutes since midnight of H:MM or HH:MM
TimeOfDay(t) ==
    LET parts == Split(t, ":") IN 60 * NumberOf(parts[1]) + NumberOf(parts[2])

\* C12: an otherwise valid submission with two valid times succeeds, and its
\* result carries the warning exactly when opening is later than or equal to
\* closing as a time of day.
TimeOrderOnlyWarns ==
    \A route \in {"route2", "part008"} :
        (/\ Answered(route) /\ response.status # 500
         /\ IsString(Sent.openingTime) /\ TimeRegex(Sent.openingTime.v)
         /\ IsString(Sent.closingTime) /\ TimeRegex(Sent.closingTime.v)
         /\ ValidExcept(Sent, {})
         /\ Sent.phone = Undefined /\ Sent.website = Undefined)
        => /\ response.success /\ response.status = 201
           /\ response.timeWarning <=>
                 TimeOfDay(Sent.openingTime.v) >= TimeOfDay(Sent.closingTime.v)

\* the answer of the same version of the route to the record it returned
Revalidated(route, data) ==
    LET body == [kind |-> "object", f |-> data] IN
    IF route = "route1" THEN Route1Response(body, 0) ELSE Part009Response(body, 0, 0)

\* C13: normalization is idempotent: the normalized record of a successful
\* result, validated again, succeeds and yields the same normalized record.
NormalizationIdempotent ==
    \A route \in {"route1", "part009"} :
        (Answered(route) /\ response.success)
        => /\ Revalidated(route, response.data).success
           /\ Revalidated(route, response.data).data = response.data

\* the value is absent, empty, or passes the format check of its field
EmptyOrWellFormed(field, x) ==
    \/ x = Undefined
    \/ /\ IsString(x)
       /\ \/ x.v = <<>>
          \/ field = "phone" /\ UKForm(x.v)
          \/ field = "website" /\ BareDomainShape(x.v)
          \/ field \in {"openingTime", "closingTime"} /\ TimeRegex(x.v)

\* C14: in every successful result, and in every saved record, each optional
\* field is empty or a value that passes the format check of that field.
OptionalFieldsWellFormed ==
    /\ \A route \in Routes :
          (Answered(route) /\ response.success)
          => \A field \in Fields \ Required : EmptyOrWellFormed(field, response.data[field])
    /\ \A i \in 1..Len(submittedBusinesses) :
          \A field \in Fields \ Required : EmptyOrWellFormed(field, submittedBusinesses[i][field])

\* the bodies that parse as JSON and are no record
NotARecord == {"null", "array", "scalar"}

\* what the schema reports for a value that is no object
SchemaTypeMessages == {"Expected object, received " \o kind : kind \in NotARecord}

\* C15: a body that parses as JSON but is no record is answered 400 by the
\* shape check: never 500, never a success, and no entry of the error map is
\* an issue of the schema.
ShapeCheckRejectsNonRecords ==
    \A route \in Routes :
        (/\ phase = "responded" /\ request.route = route
         /\ request.body.kind \in NotARecord)
        => /\ response.status = 400 /\ ~response.success
           /\ \A key \in Keys(response.errors) :
                 /\ response.errors[key] \notin SchemaTypeMessages
                 /\ key \notin Fields

\* C16: a request whose body is no parseable JSON is answered 400 with
\* success false, never 500, and nothing is saved.
UnparseableBodyIs400 ==
    \A route \in Routes :
        (/\ phase = "responded" /\ request.route = route
         /\ request.body.kind = "unparseable")
        => /\ response.status = 400 /\ ~response.success
           /\ submittedBusinesses = <<>>

\* C17: every successful answer has status 201, and its data holds the
\* normalized required fields, an id, and the record status "pending_review".
SuccessIs201PendingReview ==
    \A route \in Routes :
        (Answered(route) /\ response.success)
        => /\ response.status = 201
           /\ response.id # NoId
           /\ \A field \in Required : response.data[field] = Str(Trim(Sent[field].v))
           /\ response.recordStatus = "pending_review"

\* C18: when the save of a validated submission fails, the answer is a
\* failure of status 500 that names no field, and never a 201.
PersistenceFailureIs500 ==
    [][(/\ phase = "saving" /\ phase' = "responded"
        /\ submittedBusinesses' = submittedBusinesses)
       => /\ response'.status = 500 /\ ~response'.success
          /\ Keys(response'.errors) = {}
          /\ response'.data = NoData /\ response'.id = NoId]_vars

\* a valid submission was received, its save failed, and it was answered
PersistenceFailureWitness ==
    /\ Answered("route2")
    /\ SchemaBaseIssues(Sent) = <<>>
    /\ Sent.phone = Phone07
    /\ submittedBusinesses = <<>>
    /\ response.status = 500

\* the same value, "not provided" and the empty string both standing for absent
SameValue(x, y) == OrEmpty(x) = OrEmpty(y)

\* C19: the record saved for a successful submission carries each of the
\* seven fields with the value that is returned to the client.
SavedRecordMatchesResult ==
    (Answered("route2") /\ response.success)
    => /\ Len(submittedBusinesses) = 1
       /\ \A field \in Fields :
             SameValue(submittedBusinesses[1][field], response.data[field])

\* a submission with opening hours has been saved and answered
SavedRecordWitness ==
    /\ Answered("route2") /\ response.success
    /\ Sent.openingTime = Time0900 /\ Sent.closingTime = Time1800
    /\ Len(submittedBusinesses) = 1
    /\ submittedBusinesses[1].openingTime = Time0900
    /\ submittedBusinesses[1].name = Str(Trim(Sent.name.v))

----------------------------------------------------------------------------
(* Claims about the businesses *)

\* the name in lower case without its white space and hyphens
SlugWithoutSeparators(name) ==
    SelectSeq(ToLowerCase(name), LAMBDA c : c \notin WhiteSpace \cup {"-"})

\* editor p commits an edit that came from the edit form
CommitsFormEdit(p) ==
    /\ editors[p].pc = "commit" /\ editors[p].via = "form"
    /\ editors'[p].pc = "done" /\ editors'[p].error = "none"

\* C20 as stated: the slug stored for an edit is the name in lower case with
\* its white space runs turned into hyphens and the hyphens removed, and for
\* the name "Joe's Cafe" it is "joescafe".
StoredSlugIsJoescafe ==
    [][\A p \in Editors :
          CommitsFormEdit(p)
          => /\ businesses'[editors[p].target].slug =
                   Str(SlugWithoutSeparators(editors[p].args.name.v))
             /\ editors[p].args.name = Str(NameJoes)
                => businesses'[editors[p].target].slug =
                      Str(<<"j", "o", "e", "s", "c", "a", "f", "e">>)]_vars

\* C20 as amended: the slug stored for an edit is the name in lower case with
\* its white space runs turned into hyphens and the hyphens removed; every
\* other character is kept, so for the name "Joe's Cafe" it is "joe'scafe".
StoredSlugHasNoSeparators ==
    [][\A p \in Editors :
          CommitsFormEdit(p)
          => /\ businesses'[editors[p].target].slug =
                   Str(SlugWithoutSeparators(editors[p].args.name.v))
             /\ editors[p].args.name = Str(NameJoes)
                => businesses'[editors[p].target].slug = Str(SlugJoes)]_vars

\* an edit of "Joe's Cafe" from the form has been stored
StoredSlugWitness ==
    \E p \in Editors, i \in 1..Len(businesses) :
        /\ editors[p].pc = "done" /\ editors[p].via = "form" /\ editors[p].error = "none"
        /\ editors[p].target = i
        /\ editors[p].args.name = Str(NameJoes)
        /\ businesses[i].name = Str(NameJoes)
        /\ businesses[i].email = Str(EmailShop)
        /\ businesses[i].slug = Str(SlugJoes)

\* the slug a call writes: that of its slug argument, else of its name, else
\* the stored one, without white space and hyphens
SlugWritten(args, stored) ==
    LET base == Coalesce(Coalesce(args.slug, args.name), Str(<<>>)) IN
    IF Trim(base.v) # <<>> THEN Str(SlugWithoutSeparators(base.v))
    ELSE IF Truthy(stored.slug) THEN Str(SlugWithoutSeparators(stored.slug.v))
    ELSE Undefined

\* C21: edits are last-write-wins: every change of the table is the commit of
\* one call, which leaves in its target the name, description, email and slug
\* that this call writes, never a mixture with what an earlier call wrote, and
\* changes no other record.
LastWriteWins ==
    [][businesses' # businesses
       => \E p \in Editors :
             LET t == editors[p].target
                 a == editors[p].args
             IN /\ editors[p].pc = "commit" /\ editors'[p].pc = "done"
                /\ Len(businesses') = Len(businesses)
                /\ businesses'[t] = [name |-> a.name,
                                     description |-> a.description,
                                     email |-> a.email,
                                     slug |-> SlugWritten(a, businesses[t])]
                /\ \A i \in 1..Len(businesses) : i # t => businesses'[i] = businesses[i]]_vars

\* two calls with different arguments have both committed to the same record,
\* one of them after a re-run, and the record is that of one of them
LastWriteWinsWitness ==
    \E p, q \in Editors :
        /\ p # q
        /\ editors[p].pc = "done" /\ editors[p].error = "none"
        /\ editors[q].pc = "done" /\ editors[q].error = "none"
        /\ editors[p].target = editors[q].target
        /\ editors[p].args.email # editors[q].args.email
        /\ editors[q].retries > 0
        /\ businesses[editors[q].target].email = editors[q].args.email

\* the 'is required' message of a required field
RequiredMessage(field) ==
    CASE field = "name" -> "Business name is required"
      [] field = "description" -> "Description is required"
      [] field = "email" -> "Email is required"

\* the schema reports several issues for the field, one of them its
\* 'is required' message
SeveralIssuesWithRequired(field, f) ==
    LET issues == IssuesOf(field, f) IN
    /\ Len(issues) > 1
    /\ \E i \in 1..Len(issues) : issues[i].message = RequiredMessage(field)

\* C22: when the schema reports several issues for a field and one of them is
\* the field's 'is required' message, the one message the answer gives for
\* that field is the 'is required' message.
RequiredMessageWins ==
    Answered("part009")
    => \A field \in Required :
          SeveralIssuesWithRequired(field, Sent)
          => /\ Label(field) \in Keys(response.errors)
             /\ response.errors[Label(field)] = RequiredMessage(field)

\* the records that have the hyphenated slug the call asks for
MatchesBySlug(db, args) ==
    LET base == Coalesce(args.slug, args.name) IN
    IF IsString(base) /\ Trim(base.v) # <<>>
    THEN {i \in 1..Len(db) : db[i].slug = Str(Hyphenate(base.v))}
    ELSE {}

\* the records that have the name the call asks for
MatchesByName(db, args) ==
    IF IsString(args.name) /\ args.name.v # <<>>
    THEN {i \in 1..Len(db) : db[i].name = args.name}
    ELSE {}

\* C29: updateBusiness fails with "Business not found", leaving every record
\* unchanged, when no stored business has the hyphenated slug or the name the
\* call asks for; otherwise it patches exactly one record, a slug match if
\* there is one, else a name match, and leaves all other records unchanged.
TargetSelection ==
    [][\A p \in Editors :
          LET a == editors[p].args
              bySlug == MatchesBySlug(businesses, a)
              byName == MatchesByName(businesses, a)
              t == editors[p].target
          IN /\ (editors[p].pc = "read" /\ editors'[p].pc # "read")
                => /\ editors'[p].error = "Business not found" <=> bySlug \cup byName = {}
                   /\ businesses' = businesses
             /\ (editors[p].pc = "commit" /\ editors'[p].pc = "done")
                => /\ editors'[p].error = "none"
                   /\ t \in (IF bySlug # {} THEN bySlug ELSE byName)
                   /\ businesses'[t].name = a.name
                   /\ businesses'[t].description = a.description
                   /\ businesses'[t].email = a.email
                   /\ \A i \in 1..Len(businesses) : i # t => businesses'[i] = businesses[i]]_vars

\* C30: an edit from the edit page of a business is applied to that business
\* and to no other record, also when it changes the name; afterwards the
\* business has the submitted name, description and email and is found by
\* the slug lookup of the edit page for its new name.
EditAppliedToItsBusiness ==
    [][\A p \in Editors :
          (editors[p].via = "form" /\ editors[p].business # 0)
          => LET b == editors[p].business
                 a == editors[p].args
             IN /\ (editors[p].pc = "read" /\ editors'[p].pc # "read")
                   => editors'[p].error = "none" /\ editors'[p].target = b
                /\ CommitsFormEdit(p)
                   => /\ businesses'[b].name = a.name
                      /\ businesses'[b].description = a.description
                      /\ businesses'[b].email = a.email
                      /\ \A i \in 1..Len(businesses) : i # b => businesses'[i] = businesses[i]
                      /\ \/ PageBusiness(businesses', a.name.v) = b
                         \/ PageBusiness(businesses', Hyphenate(a.name.v)) = b]_vars

-----------------------------------------------------------------------------
(* Claims about the form stepper *)

\* C23: currentStep stays within 1..stepCount, so that currentValidator is a
\* defined schema, and isCompleted holds exactly when currentStep equals
\* stepCount.
StepperRange ==
    /\ currentStep \in 1..stepCount
    /\ CurrentValidator(currentStep, stepCount) \in 1..stepCount
    /\ IsCompleted(currentStep, stepCount) <=> currentStep = stepCount

\* goToNextStep has been called on the last of three steps, which it leaves
\* where it is
StepperRangeWitness ==
    /\ stepCount = MaxSteps
    /\ last.op = "goToNextStep"
    /\ last.from = stepCount
    /\ currentStep = stepCount

\* C24: handleNextStepOrSubmit leaves the step unchanged when the schema of
\* the step rejects the values; when it accepts them it advances by exactly
\* one step if the step is not the last, and on the last step it leaves the
\* step unchanged and submits the form without step metadata; the final
\* submit is invoked only from the last step with values its schema accepts.
NeverPastInvalidStep ==
    [][(accepted' = accepted /\ last'.op = "handleNextStepOrSubmit")
       => LET final == last'.handleSubmit.invoked /\ last'.handleSubmit.step = 0 IN
          /\ currentStep \notin accepted => currentStep' = currentStep /\ ~final
          /\ (currentStep \in accepted /\ currentStep < stepCount)
             => currentStep' = currentStep + 1 /\ ~last'.handleSubmit.invoked
          /\ (currentStep \in accepted /\ currentStep = stepCount)
             => currentStep' = currentStep /\ final
          /\ final => currentStep = stepCount /\ currentStep \in accepted]_vars

\* the form has been submitted from the last of three steps, whose schema
\* alone accepts the values
NeverPastInvalidStepWitness ==
    /\ stepCount = MaxSteps
    /\ last.op = "handleNextStepOrSubmit"
    /\ last.from = stepCount
    /\ last.handleSubmit = [invoked |-> TRUE, step |-> 0]
    /\ accepted = {stepCount}

\* C25: handleCancelOrBack on the first or the last step calls onCancel and
\* leaves currentStep unchanged; on any other step it calls onBack and
\* decrements currentStep by one; it never leaves the last step and never
\* calls both callbacks.
CancelOrBack ==
    [][(accepted' = accepted /\ last'.op = "handleCancelOrBack")
       => /\ (currentStep = 1 \/ currentStep = stepCount)
             => /\ last'.called = last'.opts \cap {"onCancel"}
                /\ currentStep' = currentStep
          /\ ~(currentStep = 1 \/ currentStep = stepCount)
             => /\ last'.called = last'.opts \cap {"onBack"}
                /\ currentStep' = currentStep - 1
          /\ last'.called # {"onBack", "onCancel"}]_vars

\* handleCancelOrBack has been called with both callbacks on the last of
\* three steps
CancelOrBackWitness ==
    /\ stepCount = MaxSteps
    /\ last.op = "handleCancelOrBack"
    /\ last.opts = {"onBack", "onCancel"}
    /\ last.from = stepCount
    /\ last.called = {"onCancel"}
    /\ currentStep = stepCount

-----------------------------------------------------------------------------
(* Claims about the forms *)

\* C26: when the endpoint answers with a non-2xx status or the request fails,
\* the form shows no success notification and keeps its values; it is reset
\* and the success notification shown only when the submission succeeded;
\* isSubmitting is false again once the attempt has finished.
FailureKeepsForm ==
    submitForm.pc = "done"
    => /\ ~Ok(submitForm.outcome)
          => /\ submitForm.toasts \cap {"page: success", "form: success"} = {}
             /\ submitForm.values = "entered"
       /\ (submitForm.values = "defaults" \/ "form: success" \in submitForm.toasts)
          => Ok(submitForm.outcome)
       /\ ~submitForm.isSubmitting

\* C27: a success notification is shown for a submission or an edit only
\* after the mutation of its server action has completed successfully.
SuccessOnlyAfterMutation ==
    "success" \in actionForm.toasts => actionForm.mutation = "succeeded"

-----------------------------------------------------------------------------
(* Claims about the submission ids *)

\* the successful answers so far, the present one included
Handouts ==
    issued \o (IF phase = "responded" /\ response.success THEN <<Handout>> ELSE <<>>)

\* C28: any two successful submissions, also two handled within the same
\* millisecond, receive different ids, and the id returned to the client is
\* the identifier of the record created in the store.
SubmissionIdsUnique ==
    /\ \A i, j \in DOMAIN Handouts : i # j => Handouts[i].id # Handouts[j].id
    /\ \A i \in DOMAIN Handouts :
          /\ Handouts[i].doc \in DOMAIN submittedBusinesses
          /\ Handouts[i].id = StoreId(Handouts[i].doc)

====
